---- MODULE Spec2Model ----
(***************************************************************************)
(* Model of the LLM evaluation pipeline: response recovery                 *)
(* (parseEvaluationResponse), score validation and repair                  *)
(* (validateEvaluationResult), the recovery strategy selector              *)
(* (determineRecoveryStrategy), the retry loop of                          *)
(* EvaluationClient.evaluate on a client shared between flows, the        *)
(* evaluate-answer edge function with its mock_answers and mock_sessions   *)
(* writes (and its earlier variant storing attempts), and the              *)
(* update_session_stats trigger of the answers table.                      *)
(*                                                                         *)
(* JavaScript numbers are modelled as fixed-point integers counting units  *)
(* of 1/Scale, so that fractional scores, rounding and integer-ness are    *)
(* observable.  Strings are modelled by their length.  A raw LLM response  *)
(* is a sequence of lexical tokens plus the JSON value its member tokens   *)
(* denote.                                                                 *)
(***************************************************************************)
EXTENDS Integers, Sequences, FiniteSets, TLC

VARIABLES
    pc,           \* position of the flow under analysis
    raw,          \* raw LLM response handed to the validator
    validation,   \* ValidationResult of the last validateEvaluationResult call
    strategy,     \* last value returned by determineRecoveryStrategy
    maxRetries,   \* EvaluationClient.maxRetries
    rubric,       \* EvaluationInput.rubric (max_score per criterion)
    retryCount,   \* evaluate: let retryCount
    lastError,    \* evaluate: let lastError
    tokenUsage,   \* evaluate: let tokenUsage
    attempts,     \* history: one record per provider call of this evaluate
    response,     \* EvaluationResponse the evaluate promise resolved to
    parsed,       \* result of the last parseEvaluationResponse call
    totalScore,   \* mock_sessions.total_score of the session
    answers,      \* rows of mock_answers of the session
    requests,     \* evaluate-answer requests in flight: locals and position
    clients,      \* EvaluationClient instances (this.config) and defaultClient
    session       \* the interview_sessions row the update_session_stats trigger writes

pipelineVars == <<raw, validation, strategy, maxRetries, rubric, retryCount,
                  lastError, tokenUsage, attempts, response>>
handlerVars == <<totalScore, answers, requests>>
vars == <<pc, pipelineVars, parsed, handlerVars, clients, session>>

-----------------------------------------------------------------------------
(* Bounds of the model                                                     *)

\* numbers are counted in units of 1/Scale
Scale == 2
\* criterion inputs range from -Span/Scale to max + Span/Scale
Span == 2
\* EvaluationClient is constructed with maxRetries in 0..MaxRetriesBound
MaxRetriesBound == 3
\* retryCount values handed to determineRecoveryStrategy on its own
MaxRetryCount == 4
\* a criterion input exceeds its maximum by up to MaxExcess
MaxExcess == 3
\* parseEvaluationResponse is applied to every token sequence up to this length
MaxTextLen == 3
\* evaluate-answer requests received for the session
MaxRequests == 2
\* EvaluationClient instances constructed while one evaluate call runs
MaxClients == 2
\* answers rows inserted for the session under the trigger
MaxAnswers == 2
\* total_questions of the session ranges over 1..MaxQuestions
MaxQuestions == 3

-----------------------------------------------------------------------------
(* Values                                                                  *)

Criteria == {"concept_accuracy", "example_usage", "edge_cases", "clarity"}
StringFields == {"overall_feedback", "improvement_tips"}
FieldNames == Criteria \cup {"final_score"} \cup StringFields

\* a field value: kind "undefined" (absent), "null", "number" (n units of
\* 1/Scale), "numstring" (a string holding the numeral of n/Scale),
\* "string" (a non-numeric string of length n; n = 0 is the empty string),
\* "apostring" (a non-numeric string of length n that contains an
\* apostrophe) or "quotstring" (the same string with a double quote in the
\* place of the apostrophe)
Val(kind, n) == [kind |-> kind, n |-> n]
UNDEF == Val("undefined", 0)
NULLV == Val("null", 0)
Num(h) == Val("number", h)
NumStr(h) == Val("numstring", h)
Str(len) == Val("string", len)
AposStr(len) == Val("apostring", len)

NoFields == [f \in FieldNames |-> UNDEF]
\* a JSON value as returned by JSON.parse
Obj(fields) == [kind |-> "object", n |-> 0, fields |-> fields]
Lit(kind, n) == [kind |-> kind, n |-> n, fields |-> NoFields]
NoValue == Lit("undefined", 0)

\* JavaScript truthiness of a parsed value
Truthy(v) ==
    CASE v.kind \in {"object", "array"} -> TRUE
      [] v.kind \in {"undefined", "null"} -> FALSE
      [] OTHER -> v.n # 0

\* data.<name> on a parsed value
Field(data, name) == IF data.kind = "object" THEN data.fields[name] ELSE UNDEF

NaN == [nan |-> TRUE, h |-> 0]
Finite(h) == [nan |-> FALSE, h |-> h]
\* Number(value)
ToNumber(v) ==
    CASE v.kind \in {"number", "numstring"} -> Finite(v.n)
      [] v.kind = "null" -> Finite(0)
      [] v.kind = "string" -> IF v.n = 0 THEN Finite(0) ELSE NaN
      [] OTHER -> NaN

IsInteger(h) == h % Scale = 0
\* Math.round: floor(x + 0.5)
MathRound(h) == Scale * ((2 * h + Scale) \div (2 * Scale))

SCORE_BOUNDS ==
    [concept_accuracy |-> [min |-> 0, max |-> 4],
     example_usage    |-> [min |-> 0, max |-> 3],
     edge_cases       |-> [min |-> 0, max |-> 2],
     clarity          |-> [min |-> 0, max |-> 1],
     final_score      |-> [min |-> 0, max |-> 10]]

-----------------------------------------------------------------------------
(* JSON parsing with recovery                                              *)

\* lexical tokens of a response: prose without braces or fences, a code
\* fence with or without the json tag, braces, the member list of an object
\* (written in JSON, with a trailing comma, with single-quoted strings, with
\* both, or not repairable) and a JSON literal
Tokens == {"prose", "fence", "fencejson", "lbrace", "rbrace",
           "members", "members_tc", "members_sq", "members_tc_sq",
           "members_broken", "lit"}
FenceTokens == {"fence", "fencejson"}

\* JSON.parse on a token sequence whose member / literal tokens denote value
JSONParse(ts, value) ==
    IF ts = <<"lbrace", "members", "rbrace">> /\ value.kind = "object"
    THEN [ok |-> TRUE, data |-> value]
    ELSE IF ts = <<"lbrace", "rbrace">>
    THEN [ok |-> TRUE, data |-> Obj(NoFields)]
    ELSE IF ts = <<"lit">> /\ value.kind # "object"
    THEN [ok |-> TRUE, data |-> value]
    ELSE [ok |-> FALSE, data |-> NoValue]

Positions(ts, S) == {i \in 1..Len(ts) : ts[i] \in S}
MinOf(S) == CHOOSE x \in S : \A y \in S : x <= y
MaxOf(S) == CHOOSE x \in S : \A y \in S : x >= y

\* rawResponse.match(/```(?:json)?\s*([\s\S]*?)```/): group 1
FencedBlock(ts) ==
    LET opens == {i \in Positions(ts, FenceTokens) :
                    \E j \in Positions(ts, FenceTokens) : j > i}
    IN IF opens = {} THEN [found |-> FALSE, ts |-> <<>>]
       ELSE LET i == MinOf(opens)
                j == MinOf({k \in Positions(ts, FenceTokens) : k > i})
            IN [found |-> TRUE, ts |-> SubSeq(ts, i + 1, j - 1)]

\* text.match(/\{[\s\S]*\}/): match 0
BraceSpan(ts) ==
    LET opens == Positions(ts, {"lbrace"})
        closes == Positions(ts, {"rbrace"})
    IN IF opens = {} \/ closes = {} \/ MaxOf(closes) < MinOf(opens)
       THEN [found |-> FALSE, ts |-> <<>>]
       ELSE [found |-> TRUE, ts |-> SubSeq(ts, MinOf(opens), MaxOf(closes))]

\* the string values of the object contain an apostrophe
HasApostrophe(value) ==
    /\ value.kind = "object"
    /\ \E f \in FieldNames : value.fields[f].kind = "apostring"

\* .replace(/'/g, '"') on the content of the strings: an apostrophe written
\* \' inside a single-quoted string becomes \", which JSON.parse reads as a
\* double quote
ReplaceQuotes(value) ==
    IF value.kind = "object"
    THEN [value EXCEPT !.fields =
            [f \in FieldNames |->
                IF value.fields[f].kind = "apostring"
                THEN Val("quotstring", value.fields[f].n)
                ELSE value.fields[f]]]
    ELSE value

\* removal of trailing commas before a closing brace and replacement of
\* single quotes by double quotes, on the tokens: the quotes of single-quoted
\* strings become JSON quotes; an apostrophe inside a double-quoted string
\* becomes a quote that ends the string early
Sanitize(ts, apostrophe) ==
    [i \in 1..Len(ts) |->
        LET closed == i < Len(ts) /\ ts[i + 1] = "rbrace"
        IN CASE ts[i] = "members" -> IF apostrophe THEN "members_broken" ELSE "members"
             [] ts[i] = "members_sq" -> "members"
             [] ts[i] = "members_tc_sq" -> IF closed THEN "members" ELSE "members_tc"
             [] ts[i] = "members_tc" ->
                    IF apostrophe THEN "members_broken"
                    ELSE IF closed THEN "members" ELSE "members_tc"
             [] OTHER -> ts[i]]

\* Step 1: Try direct parsing
DirectParse(rawResponse) == JSONParse(rawResponse.text, rawResponse.value)

\* Step 2: Extract JSON from markdown code blocks
FencedParse(rawResponse) ==
    LET block == FencedBlock(rawResponse.text)
    IN IF block.found THEN JSONParse(block.ts, rawResponse.value)
       ELSE [ok |-> FALSE, data |-> NoValue]

\* Step 3: Find JSON object pattern in response
BraceParse(rawResponse) ==
    LET span == BraceSpan(rawResponse.text)
    IN IF span.found THEN JSONParse(span.ts, rawResponse.value)
       ELSE [ok |-> FALSE, data |-> NoValue]

\* Step 4: Attempt to fix common JSON issues
SanitizedParse(rawResponse) ==
    LET span == BraceSpan(Sanitize(rawResponse.text, HasApostrophe(rawResponse.value)))
    IN IF span.found THEN JSONParse(span.ts, ReplaceQuotes(rawResponse.value))
       ELSE [ok |-> FALSE, data |-> NoValue]

ParseFailure == [success |-> FALSE, data |-> NoValue, stage |-> 0]
ParseSuccess(v, stage) == [success |-> TRUE, data |-> v, stage |-> stage]

\* variant: the brace span is tried before the fenced code block
parseEvaluationResponse_braceFirst(rawResponse) ==
    IF DirectParse(rawResponse).ok
    THEN ParseSuccess(DirectParse(rawResponse).data, 1)
    ELSE IF BraceParse(rawResponse).ok
    THEN ParseSuccess(BraceParse(rawResponse).data, 3)
    ELSE IF FencedParse(rawResponse).ok
    THEN ParseSuccess(FencedParse(rawResponse).data, 2)
    ELSE IF SanitizedParse(rawResponse).ok
    THEN ParseSuccess(SanitizedParse(rawResponse).data, 4)
    ELSE ParseFailure

\* the stage of the result is the number of the step that returned
parseEvaluationResponse(rawResponse) ==
    IF DirectParse(rawResponse).ok
    THEN ParseSuccess(DirectParse(rawResponse).data, 1)
    ELSE IF FencedParse(rawResponse).ok
    THEN ParseSuccess(FencedParse(rawResponse).data, 2)
    ELSE IF BraceParse(rawResponse).ok
    THEN ParseSuccess(BraceParse(rawResponse).data, 3)
    ELSE IF SanitizedParse(rawResponse).ok
    THEN ParseSuccess(SanitizedParse(rawResponse).data, 4)
    ELSE ParseFailure

-----------------------------------------------------------------------------
(* Score validation and repair                                             *)

Err(field, message) == [field |-> field, message |-> message]
Warn(field, message) == [field |-> field, message |-> message]

\* variant: the score is rounded without a warning
RoundStep_silent(acc) ==
    IF ~IsInteger(acc.score)
    THEN [score |-> MathRound(acc.score), warnings |-> acc.warnings,
          wasRepaired |-> TRUE, field |-> acc.field, errors |-> acc.errors]
    ELSE acc

\* validateAndRepairScore: "Round to integer"
RoundStep(acc) ==
    IF ~IsInteger(acc.score)
    THEN [score |-> MathRound(acc.score),
          warnings |-> Append(acc.warnings, Warn(acc.field, "Score was not an integer")),
          wasRepaired |-> TRUE, field |-> acc.field, errors |-> acc.errors]
    ELSE acc

\* validateAndRepairScore: "Clamp to bounds", lower bound
ClampMinStep(acc, bounds) ==
    IF acc.score < Scale * bounds.min
    THEN [score |-> Scale * bounds.min,
          warnings |-> Append(acc.warnings, Warn(acc.field, "Score below minimum")),
          wasRepaired |-> TRUE, field |-> acc.field, errors |-> acc.errors]
    ELSE acc

\* variant: the upper clamp is omitted
ClampMaxStep_omitted(acc, bounds) == acc

\* validateAndRepairScore: "Clamp to bounds", upper bound
ClampMaxStep(acc, bounds) ==
    IF acc.score > Scale * bounds.max
    THEN [score |-> Scale * bounds.max,
          warnings |-> Append(acc.warnings, Warn(acc.field, "Score above maximum")),
          wasRepaired |-> TRUE, field |-> acc.field, errors |-> acc.errors]
    ELSE acc

\* the errors and warnings of the result are those pushed by this call
validateAndRepairScore(value, field) ==
    IF value.kind \in {"undefined", "null"}
    THEN [field |-> field, score |-> 0, wasRepaired |-> TRUE,
          errors |-> <<Err(field, "Missing required field")>>, warnings |-> <<>>]
    ELSE IF ToNumber(value).nan
    THEN [field |-> field, score |-> 0, wasRepaired |-> TRUE,
          errors |-> <<Err(field, "Invalid number")>>, warnings |-> <<>>]
    ELSE ClampMaxStep(
            ClampMinStep(
                RoundStep([field |-> field, score |-> ToNumber(value).h,
                           wasRepaired |-> FALSE, errors |-> <<>>, warnings |-> <<>>]),
                SCORE_BOUNDS[field]),
            SCORE_BOUNDS[field])

-----------------------------------------------------------------------------
(* String field validation                                                 *)

\* length of 'No feedback provided.'
DefaultTextLen == 21
\* length of the '...' appended on truncation
EllipsisLen == 3
\* maxLength passed for overall_feedback and improvement_tips
MaxFieldLength == 1000

DefaultText == [len |-> DefaultTextLen, content |-> "default"]

\* text after the empty-string default, before truncation
FilledLength(value) == IF value.n = 0 THEN DefaultTextLen ELSE value.n

\* the errors and warnings of the result are those pushed by this call
validateStringField(value, field, maxLength) ==
    IF value.kind \in {"undefined", "null"}
    THEN [text |-> DefaultText, wasRepaired |-> TRUE,
          errors |-> <<Err(field, "Missing required field")>>, warnings |-> <<>>]
    ELSE [text |-> IF FilledLength(value) > maxLength
                   THEN [len |-> maxLength + EllipsisLen, content |-> "truncated"]
                   ELSE IF value.n = 0 THEN DefaultText
                   ELSE [len |-> value.n, content |-> "llm"],
          wasRepaired |-> value.n = 0 \/ FilledLength(value) > maxLength,
          errors |-> <<>>,
          warnings |-> (IF value.n = 0 THEN <<Warn(field, "Empty string")>> ELSE <<>>)
                       \o (IF FilledLength(value) > maxLength
                           THEN <<Warn(field, "String exceeds maximum length")>>
                           ELSE <<>>)]

-----------------------------------------------------------------------------
(* Main validation function                                                *)

NoData == [concept_accuracy |-> 0, example_usage |-> 0, edge_cases |-> 0,
           clarity |-> 0, final_score |-> 0,
           overall_feedback |-> [len |-> 0, content |-> "none"],
           improvement_tips |-> [len |-> 0, content |-> "none"]]

\* const calculatedFinalScore = ...
calculatedFinalScore(concept, example, edge, clar) ==
    concept + example + edge + clar

\* variant: a numeric final_score supplied by the LLM is kept
finalScore_trusted(provided, calculated) ==
    IF provided.kind = "number" THEN provided.n ELSE calculated

\* "Validate final_score": the value used, and the warning recorded
finalScore(provided, calculated) == calculated

FinalScoreMismatch(provided, calculated) ==
    /\ provided.kind # "undefined"
    /\ ~ToNumber(provided).nan
    /\ ToNumber(provided).h # calculated

\* variant: an error on any field is critical
hasCriticalErrors_anyField(errors) == Len(errors) > 0

\* const hasCriticalErrors = errors.some(...)
hasCriticalErrors(errors) ==
    \E i \in 1..Len(errors) : errors[i].field \in Criteria

\* the parsed object is validated field by field; errors and warnings are
\* collected in the order of the calls
ValidateFields(data) ==
    LET conceptResult == validateAndRepairScore(
            Field(data, "concept_accuracy"), "concept_accuracy")
        exampleResult == validateAndRepairScore(
            Field(data, "example_usage"), "example_usage")
        edgeResult == validateAndRepairScore(Field(data, "edge_cases"), "edge_cases")
        clarityResult == validateAndRepairScore(Field(data, "clarity"), "clarity")
        calculated == calculatedFinalScore(conceptResult.score, exampleResult.score,
                                           edgeResult.score, clarityResult.score)
        mismatch == FinalScoreMismatch(Field(data, "final_score"), calculated)
        feedbackResult == validateStringField(
            Field(data, "overall_feedback"), "overall_feedback", MaxFieldLength)
        tipsResult == validateStringField(
            Field(data, "improvement_tips"), "improvement_tips", MaxFieldLength)
        errors == conceptResult.errors \o exampleResult.errors \o edgeResult.errors
                    \o clarityResult.errors \o feedbackResult.errors \o tipsResult.errors
    IN [isValid |-> ~hasCriticalErrors(errors),
        hasData |-> TRUE,
        data |-> [concept_accuracy |-> conceptResult.score,
                  example_usage |-> exampleResult.score,
                  edge_cases |-> edgeResult.score,
                  clarity |-> clarityResult.score,
                  final_score |-> finalScore(Field(data, "final_score"), calculated),
                  overall_feedback |-> feedbackResult.text,
                  improvement_tips |-> tipsResult.text],
        errors |-> errors,
        warnings |-> conceptResult.warnings \o exampleResult.warnings
                       \o edgeResult.warnings \o clarityResult.warnings
                       \o (IF mismatch
                           THEN <<Warn("final_score", "Provided final_score doesn't match")>>
                           ELSE <<>>)
                       \o feedbackResult.warnings \o tipsResult.warnings,
        wasRepaired |-> \/ conceptResult.wasRepaired \/ exampleResult.wasRepaired
                        \/ edgeResult.wasRepaired \/ clarityResult.wasRepaired
                        \/ mismatch
                        \/ feedbackResult.wasRepaired \/ tipsResult.wasRepaired]

\* "Parse JSON": the early return on a failed or falsy parse result
ParseError(parseResult) ==
    [isValid |-> FALSE, hasData |-> FALSE, data |-> NoData,
     errors |-> <<Err("response", IF parseResult.success THEN "Invalid JSON"
                                  ELSE "Failed to parse response as JSON")>>,
     warnings |-> <<>>, wasRepaired |-> FALSE]

validateEvaluationResult(rawResponse) ==
    CHOOSE result \in
        {IF ~parseResult.success \/ ~Truthy(parseResult.data)
         THEN ParseError(parseResult)
         ELSE ValidateFields(parseResult.data) :
            parseResult \in {parseEvaluationResponse(rawResponse)}} : TRUE

\* quickValidate: "true" / "false", or "throws" when the in operator is
\* applied to a parsed value that is not an object
quickValidate(rawResponse) ==
    LET parseResult == parseEvaluationResponse(rawResponse)
    IN IF ~parseResult.success \/ ~Truthy(parseResult.data) THEN "false"
       ELSE IF parseResult.data.kind \notin {"object", "array"} THEN "throws"
       ELSE IF \A f \in FieldNames : Field(parseResult.data, f) # UNDEF
       THEN "true" ELSE "false"

-----------------------------------------------------------------------------
(* Error recovery strategies                                               *)

RETRY_SAME_PROMPT == "retry_same_prompt"
RETRY_SIMPLIFIED == "retry_simplified"
USE_DEFAULT_SCORES == "use_default_scores"
FAIL == "fail"
RecoveryStrategy == {RETRY_SAME_PROMPT, RETRY_SIMPLIFIED, USE_DEFAULT_SCORES, FAIL}

\* const maxRetries = 2 inside determineRecoveryStrategy
SelectorMaxRetries == 2

\* variant: the retry budget is compared with <=
determineRecoveryStrategy_offByOne(validationResult, retries) ==
    IF validationResult.isValid
    THEN RETRY_SAME_PROMPT
    ELSE IF retries <= SelectorMaxRetries
    THEN RETRY_SIMPLIFIED
    ELSE USE_DEFAULT_SCORES

\* variant: a parse failure is not told apart from field-level errors
determineRecoveryStrategy_noParseBranch(validationResult, retries) ==
    IF validationResult.isValid
    THEN RETRY_SAME_PROMPT
    ELSE IF retries < SelectorMaxRetries
    THEN RETRY_SIMPLIFIED
    ELSE USE_DEFAULT_SCORES

determineRecoveryStrategy(validationResult, retries) ==
    IF validationResult.isValid
    THEN RETRY_SAME_PROMPT
    ELSE IF \E i \in 1..Len(validationResult.errors) :
                validationResult.errors[i].field = "response"
    THEN IF retries < SelectorMaxRetries
         THEN (IF retries = 0 THEN RETRY_SAME_PROMPT ELSE RETRY_SIMPLIFIED)
         ELSE USE_DEFAULT_SCORES
    ELSE IF retries < SelectorMaxRetries
    THEN RETRY_SIMPLIFIED
    ELSE USE_DEFAULT_SCORES

\* getDefaultEvaluationResult(reason): the reason is kept inside the feedback
getDefaultEvaluationResult(reason) ==
    [concept_accuracy |-> 0, example_usage |-> 0, edge_cases |-> 0,
     clarity |-> 0, final_score |-> 0,
     overall_feedback |-> [content |-> "could_not_be_completed", reason |-> reason],
     improvement_tips |-> [content |-> "unable_to_provide"]]

-----------------------------------------------------------------------------
(* Raw responses                                                           *)

BareText == <<"lbrace", "members", "rbrace">>
FencedText == <<"prose", "fencejson", "lbrace", "members", "rbrace", "fence", "prose">>
ProseText == <<"prose", "lbrace", "members", "rbrace", "prose">>
SloppyText == <<"lbrace", "members_tc_sq", "rbrace">>
TwoObjectsText == <<"lbrace", "members", "rbrace", "prose", "lbrace", "members", "rbrace">>
EmptyObjectText == <<"lbrace", "rbrace">>
GarbageText == <<"prose">>
UnclosedText == <<"prose", "lbrace", "members">>
EmptyText == <<>>
LitText == <<"lit">>

ObjectTexts == {BareText, FencedText, ProseText, SloppyText, TwoObjectsText,
                EmptyObjectText, GarbageText, UnclosedText, EmptyText}

Raw(text, value) == [text |-> text, value |-> value]

ScoreRange(f) == (0 - Span)..(Scale * SCORE_BOUNDS[f].max + Span)
\* a score above every criterion maximum, and a fractional score
OverScore == Scale * (SCORE_BOUNDS["concept_accuracy"].max + 1)
FractionScore == Scale - 1

\* inputs of one criterion: every multiple of 1/Scale around its bounds, a
\* numeral string, the empty string and an absent field
ScoreInputs(f) ==
    {Num(h) : h \in ScoreRange(f)}
        \cup {Num(Scale * (SCORE_BOUNDS[f].max + MaxExcess)), NumStr(Scale), Str(0), UNDEF}
\* one input per kind of value
KindInputs == {UNDEF, NULLV, Str(3), Num(OverScore)}
FinalInputs == {UNDEF, NULLV, Str(3), Num(0), Num(Scale * 5), NumStr(Scale * 10)}
TextInputs == {UNDEF, NULLV, Str(0), Str(1), Str(MaxFieldLength), Str(MaxFieldLength + 1)}

Fields(c, e, g, cl, fin, fb, tips) ==
    [concept_accuracy |-> c, example_usage |-> e, edge_cases |-> g, clarity |-> cl,
     final_score |-> fin, overall_feedback |-> fb, improvement_tips |-> tips]

\* well-formed text, every numeric input, LLM-like strings
ScoreSlice(r) ==
    \E c \in ScoreInputs("concept_accuracy"), e \in ScoreInputs("example_usage"),
       g \in ScoreInputs("edge_cases"), cl \in ScoreInputs("clarity"),
       fin \in {UNDEF, Num(Scale * 5)} :
        r = Raw(BareText, Obj(Fields(c, e, g, cl, fin, Str(1), Str(1))))

\* well-formed text, every kind of value in every field
KindSlice(r) ==
    \E c \in KindInputs, e \in KindInputs, g \in KindInputs, cl \in KindInputs,
       fin \in FinalInputs, fb \in TextInputs, tips \in TextInputs :
        r = Raw(BareText, Obj(Fields(c, e, g, cl, fin, fb, tips)))

SampleScores == {UNDEF, Num(FractionScore), Num(Scale), Num(OverScore)}
SampleObjects ==
    {Obj(Fields(c, e, Num(Scale), cl, fin, fb, Str(1))) :
        c \in SampleScores, e \in {Str(3), Num(Scale * 2)}, cl \in {Num(0 - Scale), Num(Scale)},
        fin \in {UNDEF, Num(Scale * 5)}, fb \in {UNDEF, Str(1)}}
Literals == {Lit("null", 0), Lit("number", 0), Lit("number", Scale * 5),
             Lit("string", 0), Lit("string", 3), Lit("boolean", 0),
             Lit("boolean", 1), Lit("array", 0)}

\* every text form around a sample of objects, and the JSON literals
FormSlice(r) ==
    \/ \E t \in ObjectTexts, v \in SampleObjects : r = Raw(t, v)
    \/ \E v \in Literals : r = Raw(LitText, v)

ValidatorInput(r) == ScoreSlice(r) \/ KindSlice(r) \/ FormSlice(r)

-----------------------------------------------------------------------------
(* State                                                                   *)

NoValidation == [isValid |-> FALSE, hasData |-> FALSE, data |-> NoData,
                 errors |-> <<>>, warnings |-> <<>>, wasRepaired |-> FALSE]
NoRaw == Raw(EmptyText, NoValue)
NoResponse == [returned |-> FALSE]
NoRubric == [f \in Criteria |-> 0]
\* no request has been received and the session has no answers
HandlerIdle == totalScore = 0 /\ answers = {} /\ requests = <<>>

\* the client evaluate runs on, with the config of DEFAULT_LLM_CONFIG
\* (provider and model); default is the index of the module's defaultClient,
\* 0 while it is null (the client was constructed with new EvaluationClient)
NewClient(default) ==
    [instances |-> <<[provider |-> "openai", model |-> "gpt-4o-mini"]>>,
     default |-> default]
\* this.config of the instance the evaluate call was made on
ThisConfig == clients.instances[1]

\* an interview_sessions row as inserted: completed_questions DEFAULT 0,
\* total_score and max_possible_score NULL
SQLNull == [null |-> TRUE, v |-> 0]
NoSession ==
    [total_questions |-> 0, completed_questions |-> 0, total_score |-> SQLNull,
     max_possible_score |-> SQLNull]

-----------------------------------------------------------------------------
(* validateEvaluationResult applied to bounded inputs                      *)

InitValidate ==
    /\ pc = "validate_input"
    /\ ValidatorInput(raw)
    /\ validation = NoValidation
    /\ strategy = "none"
    /\ maxRetries = 0
    /\ rubric = NoRubric
    /\ retryCount = 0
    /\ lastError = "undefined"
    /\ tokenUsage = "undefined"
    /\ attempts = <<>>
    /\ response = NoResponse
    /\ parsed = ParseFailure
    /\ HandlerIdle
    /\ clients = NewClient(0)
    /\ session = NoSession

Validate ==
    /\ pc = "validate_input"
    /\ validation' = validateEvaluationResult(raw)
    /\ pc' = "validated"
    /\ UNCHANGED <<raw, strategy, maxRetries, rubric, retryCount, lastError,
                   tokenUsage, attempts, response>>
    /\ UNCHANGED <<parsed, handlerVars, clients, session>>

NextValidate == Validate

SpecValidate == InitValidate /\ [][NextValidate]_vars

-----------------------------------------------------------------------------
(* Rubrics                                                                 *)

RUBRIC_WEIGHTS == [concept_accuracy |-> 4, example_usage |-> 3,
                   edge_cases |-> 2, clarity |-> 1]
TOTAL_RUBRIC_SCORE == 10

validateRubricWeights(r) ==
    r.concept_accuracy + r.example_usage + r.edge_cases + r.clarity
        = TOTAL_RUBRIC_SCORE

\* max_score per criterion of the rubrics handed to evaluate
RubricCandidates ==
    {RUBRIC_WEIGHTS,
     [concept_accuracy |-> 1, example_usage |-> 2, edge_cases |-> 3, clarity |-> 4],
     [concept_accuracy |-> 2, example_usage |-> 2, edge_cases |-> 3, clarity |-> 3],
     [concept_accuracy |-> 4, example_usage |-> 4, edge_cases |-> 4, clarity |-> 4]}
Rubrics == {r \in RubricCandidates : validateRubricWeights(r)}

-----------------------------------------------------------------------------
(* EvaluationClient.evaluate                                               *)

\* responses a provider call can resolve to
EvaluateScores == {UNDEF, Num(FractionScore), Num(OverScore)}
EvaluateObjects ==
    {Obj(Fields(c, Num(Scale), Num(Scale), cl, Num(Scale * 5), UNDEF, Str(1))) :
        c \in EvaluateScores, cl \in {Str(3), Num(Scale)}}
EvaluateRaws ==
    {Raw(t, v) : t \in {BareText, FencedText, GarbageText},
                 v \in EvaluateObjects}
        \cup {Raw(LitText, v) : v \in {Lit("null", 0), Lit("number", Scale * 5)}}
\* llmResponse.usage of the k-th provider call of this evaluate
UsageOf(k) == k
ProviderErrors == {"API error", "Unknown error"}

\* const userPrompt = retryCount === 0 ? buildEvaluationPrompt : buildFallbackPrompt
PromptFor(retries) == IF retries = 0 THEN "full" ELSE "fallback"

\* variant: one iteration too many
LoopCondition_extra(retries, max) == retries <= max + 1

\* while (retryCount <= this.maxRetries)
LoopCondition(retries, max) == retries <= max

\* variant: every validation outcome is accepted
AcceptGuard_always(v) == TRUE

\* if (validation.isValid && validation.data)
AcceptGuard(v) == v.isValid /\ v.hasData

\* metadata: this.config is read when the response is built
Metadata(retries, usage) ==
    [retry_count |-> retries, token_usage |-> usage,
     model_used |-> ThisConfig.provider, model_version |-> ThisConfig.model]

\* variant: the number of provider calls is reported as retry_count
SuccessResponse_countsCalls(v, retries, usage) ==
    [returned |-> TRUE, success |-> TRUE, hasData |-> v.hasData, data |-> v.data,
     metadata |-> Metadata(retries + 1, usage),
     hasError |-> FALSE, error |-> "undefined"]

SuccessResponse(v, retries, usage) ==
    [returned |-> TRUE, success |-> TRUE, hasData |-> v.hasData, data |-> v.data,
     metadata |-> Metadata(retries, usage),
     hasError |-> FALSE, error |-> "undefined"]

\* variant: the default response is returned without its error field
DefaultResponse_noError(retries, error, usage) ==
    [returned |-> TRUE, success |-> FALSE, hasData |-> TRUE,
     data |-> getDefaultEvaluationResult(
                 IF error = "undefined" THEN "Evaluation failed" ELSE error),
     metadata |-> Metadata(retries, usage),
     hasError |-> FALSE, error |-> "undefined"]

\* "All retries exhausted - return default result"
DefaultResponse(retries, error, usage) ==
    [returned |-> TRUE, success |-> FALSE, hasData |-> TRUE,
     data |-> getDefaultEvaluationResult(
                 IF error = "undefined" THEN "Evaluation failed" ELSE error),
     metadata |-> Metadata(retries, usage),
     hasError |-> TRUE,
     error |-> IF error = "undefined"
               THEN "Failed to evaluate answer after retries" ELSE error]

\* one iteration of the loop: its prompt, how the awaited race ended, the
\* selector's decision, the promise of provider.call ("pending" until it
\* settles; "late" once it has settled after the deadline won the race), the
\* provider object that was called and the config.model it was called with
Attempt(prompt, provider, model) ==
    [prompt |-> prompt, outcome |-> "pending", strategy |-> "none", call |-> "pending",
     provider |-> provider, model |-> model]
Settle(hist, outcome, strat) ==
    [hist EXCEPT ![Len(hist)].outcome = outcome, ![Len(hist)].strategy = strat,
                 ![Len(hist)].call = IF outcome = "timeout" THEN "pending" ELSE "settled"]

\* top of the while loop with the given locals: either the next provider
\* call is issued with the prompt chosen for this retryCount, or the loop is
\* left and the default response returned
LoopOrReturn(retries, error, usage, hist) ==
    /\ retryCount' = retries
    /\ lastError' = error
    /\ tokenUsage' = usage
    /\ IF LoopCondition(retries, maxRetries)
       THEN /\ pc' = "awaiting"
            /\ attempts' = Append(hist,
                   Attempt(PromptFor(retries),
                           \* const provider = getProvider(this.config.provider),
                           \* once, before the loop
                           IF hist = <<>> THEN ThisConfig.provider ELSE hist[1].provider,
                           \* provider.call(..., this.config) reads config.model
                           ThisConfig.model))
            /\ response' = response
       ELSE /\ pc' = "done"
            /\ attempts' = hist
            /\ response' = DefaultResponse(retries, error, usage)

\* break out of the loop on USE_DEFAULT_SCORES
BreakAndReturn(usage, hist) ==
    /\ retryCount' = retryCount
    /\ lastError' = lastError
    /\ tokenUsage' = usage
    /\ pc' = "done"
    /\ attempts' = hist
    /\ response' = DefaultResponse(retryCount, lastError, usage)

\* validation.errors[0]?.message || 'Validation failed'
FirstErrorMessage(v) ==
    IF Len(v.errors) > 0 THEN v.errors[1].message ELSE "Validation failed"

OutcomeOf(v) ==
    IF v.isValid THEN "valid"
    ELSE IF v.hasData THEN "field_errors" ELSE "parse_failure"

InitEvaluate ==
    /\ pc = "constructed"
    /\ maxRetries \in 0..MaxRetriesBound
    /\ rubric \in Rubrics
    /\ raw = NoRaw
    /\ validation = NoValidation
    /\ strategy = "none"
    /\ retryCount = 0
    /\ lastError = "undefined"
    /\ tokenUsage = "undefined"
    /\ attempts = <<>>
    /\ response = NoResponse
    /\ parsed = ParseFailure
    /\ HandlerIdle
    /\ clients = NewClient(0)
    /\ session = NoSession

\* evaluate(input) is called: runs up to the first provider call
Evaluate ==
    /\ pc = "constructed"
    /\ LoopOrReturn(0, "undefined", "undefined", <<>>)
    /\ UNCHANGED <<raw, validation, strategy, maxRetries, rubric>>
    /\ UNCHANGED <<parsed, handlerVars, clients, session>>

\* the provider call resolves with text content before the deadline
ProviderResolves ==
    /\ pc = "awaiting"
    /\ \E r \in EvaluateRaws :
       \E v \in {validateEvaluationResult(r)} :
         LET strat == determineRecoveryStrategy(v, retryCount)
             usage == UsageOf(Len(attempts))
         IN /\ validation' = v
            /\ IF AcceptGuard(v)
               THEN /\ strategy' = strategy
                    /\ pc' = "done"
                    /\ attempts' = Settle(attempts, OutcomeOf(v), "accepted")
                    /\ response' = SuccessResponse(v, retryCount, usage)
                    /\ tokenUsage' = usage
                    /\ UNCHANGED <<retryCount, lastError>>
               ELSE /\ strategy' = strat
                    /\ IF strat = USE_DEFAULT_SCORES
                       THEN BreakAndReturn(usage, Settle(attempts, OutcomeOf(v), strat))
                       ELSE LoopOrReturn(retryCount + 1, FirstErrorMessage(v), usage,
                                         Settle(attempts, OutcomeOf(v), strat))
    /\ UNCHANGED <<raw, maxRetries, rubric>>
    /\ UNCHANGED <<parsed, handlerVars, clients, session>>

\* catch (error): lastError = error.message; retryCount++
Catch(message, usage, outcome) ==
    /\ LoopOrReturn(retryCount + 1, message, usage,
                    Settle(attempts, outcome, "caught"))
    /\ UNCHANGED <<raw, validation, strategy, maxRetries, rubric>>
    /\ UNCHANGED <<parsed, handlerVars, clients, session>>

\* the provider call resolves with a content that is not a string:
\* tokenUsage is assigned, then the validator throws a TypeError
ProviderResolvesMalformed ==
    /\ pc = "awaiting"
    /\ Catch("TypeError", UsageOf(Len(attempts)), "malformed")

\* the provider call rejects (non-2xx, missing API key, non-Error rejection)
ProviderRejects ==
    /\ pc = "awaiting"
    /\ \E message \in ProviderErrors : Catch(message, tokenUsage, "rejected")

\* the deadline of callWithTimeout fires before the provider call settles
Timeout ==
    /\ pc = "awaiting"
    /\ Catch("Request timeout", tokenUsage, "timeout")

\* variant: a late response is counted as one more failed attempt
LateResponse_counted ==
    \E i \in 1..Len(attempts) :
        /\ attempts[i].outcome = "timeout"
        /\ attempts[i].call = "pending"
        /\ attempts' = [attempts EXCEPT ![i].call = "late"]
        /\ retryCount' = retryCount + 1
        /\ UNCHANGED <<pc, raw, validation, strategy, maxRetries, rubric, tokenUsage,
                       lastError, response>>
        /\ UNCHANGED <<parsed, handlerVars, clients, session>>

\* the provider call of an attempt whose deadline has fired settles: the
\* race of callWithTimeout is already rejected, nothing awaits the promise
LateResponse ==
    \E i \in 1..Len(attempts) :
        /\ attempts[i].outcome = "timeout"
        /\ attempts[i].call = "pending"
        /\ attempts' = [attempts EXCEPT ![i].call = "late"]
        /\ UNCHANGED <<pc, raw, validation, strategy, maxRetries, rubric, retryCount,
                       lastError, tokenUsage, response>>
        /\ UNCHANGED <<parsed, handlerVars, clients, session>>

NextEvaluate ==
    \/ Evaluate
    \/ ProviderResolves
    \/ ProviderResolvesMalformed
    \/ ProviderRejects
    \/ Timeout
    \/ LateResponse

SpecEvaluate == InitEvaluate /\ [][NextEvaluate]_vars

\* every awaited call settles: the deadline of callWithTimeout always fires
SpecEvaluateLive == SpecEvaluate /\ WF_vars(NextEvaluate)

-----------------------------------------------------------------------------
(* An evaluate call on the shared client while other flows use the client  *)

\* provider and model of a config
LLMConfigs ==
    {[provider |-> "openai", model |-> "gpt-4o-mini"],
     [provider |-> "anthropic", model |-> "claude-3-haiku-20240307"]}

\* this.maxRetries = options.maxRetries ?? 2
DefaultMaxRetries == 2

\* the default client, constructed by getEvaluationClient() without options
InitClient ==
    /\ pc = "constructed"
    /\ maxRetries = DefaultMaxRetries
    /\ rubric = RUBRIC_WEIGHTS
    /\ raw = NoRaw
    /\ validation = NoValidation
    /\ strategy = "none"
    /\ retryCount = 0
    /\ lastError = "undefined"
    /\ tokenUsage = "undefined"
    /\ attempts = <<>>
    /\ response = NoResponse
    /\ parsed = ParseFailure
    /\ HandlerIdle
    /\ clients = NewClient(1)
    /\ session = NoSession

\* another flow calls setModel(provider, model) on a client it got from
\* getEvaluationClient: this.config.provider and this.config.model are
\* assigned in place
SetModel ==
    /\ clients.default # 0
    /\ \E k \in 1..Len(clients.instances) :
       \E cfg \in LLMConfigs \ {clients.instances[k]} :
          clients' = [clients EXCEPT !.instances[k] = cfg]
    /\ UNCHANGED <<pc, pipelineVars, parsed, handlerVars, session>>

\* another flow calls getEvaluationClient(options) while the evaluate call
\* runs on the defaultClient: a new instance is constructed from the options
\* and becomes the defaultClient
GetEvaluationClient ==
    /\ clients.default # 0
    /\ Len(clients.instances) < MaxClients
    /\ \E cfg \in LLMConfigs :
          clients' = [instances |-> Append(clients.instances, cfg),
                      default |-> Len(clients.instances) + 1]
    /\ UNCHANGED <<pc, pipelineVars, parsed, handlerVars, session>>

SpecClient == InitClient /\ [][NextEvaluate \/ SetModel \/ GetEvaluationClient]_vars

-----------------------------------------------------------------------------
(* determineRecoveryStrategy applied to bounded inputs                     *)

InitStrategy ==
    /\ pc = "strategy_input"
    /\ FormSlice(raw)
    /\ validation = validateEvaluationResult(raw)
    /\ retryCount \in 0..MaxRetryCount
    /\ strategy = "none"
    /\ maxRetries = 0
    /\ rubric = NoRubric
    /\ lastError = "undefined"
    /\ tokenUsage = "undefined"
    /\ attempts = <<>>
    /\ response = NoResponse
    /\ parsed = ParseFailure
    /\ HandlerIdle
    /\ clients = NewClient(0)
    /\ session = NoSession

Determine ==
    /\ pc = "strategy_input"
    /\ strategy' = determineRecoveryStrategy(validation, retryCount)
    /\ pc' = "decided"
    /\ UNCHANGED <<raw, validation, maxRetries, rubric, retryCount, lastError,
                   tokenUsage, attempts, response>>
    /\ UNCHANGED <<parsed, handlerVars, clients, session>>

NextStrategy == Determine

SpecStrategy == InitStrategy /\ [][NextStrategy]_vars

-----------------------------------------------------------------------------
(* parseEvaluationResponse applied to bounded inputs                       *)

\* a fenced literal followed by an empty object
FencedLiteralText == <<"fence", "lit", "fence", "lbrace", "rbrace">>

\* an evaluation object with plain strings and one whose feedback contains an
\* apostrophe; a number and null
ParseObjects ==
    {Obj(Fields(Num(Scale * 3), Num(Scale * 2), Num(Scale), Num(Scale),
                Num(Scale * 7), fb, Str(1))) : fb \in {Str(2), AposStr(2)}}
ParseValues == ParseObjects \cup {Lit("number", Scale * 5), Lit("null", 0)}

InitParse ==
    /\ pc = "parse_input"
    /\ \E v \in ParseValues :
          \/ \E t \in ObjectTexts \cup {LitText, FencedLiteralText} : raw = Raw(t, v)
          \/ \E n \in 0..MaxTextLen : \E t \in [1..n -> Tokens] : raw = Raw(t, v)
    /\ validation = NoValidation
    /\ strategy = "none"
    /\ maxRetries = 0
    /\ rubric = NoRubric
    /\ retryCount = 0
    /\ lastError = "undefined"
    /\ tokenUsage = "undefined"
    /\ attempts = <<>>
    /\ response = NoResponse
    /\ parsed = ParseFailure
    /\ HandlerIdle
    /\ clients = NewClient(0)
    /\ session = NoSession

Parse ==
    /\ pc = "parse_input"
    /\ parsed' = parseEvaluationResponse(raw)
    /\ pc' = "parsed"
    /\ UNCHANGED <<pipelineVars, handlerVars, clients, session>>

NextParse == Parse

SpecParse == InitParse /\ [][NextParse]_vars

-----------------------------------------------------------------------------
(* The evaluate-answer edge function: concurrent requests for one session  *)

\* questions of the session and the rubric column stored with each
Questions == {"q1", "q2"}
QuestionRubric ==
    [q \in Questions |->
        IF q = "q1" THEN [stored |-> FALSE, weights |-> NoRubric]
        ELSE [stored |-> TRUE, weights |-> RUBRIC_WEIGHTS]]

\* const weights = { concept_accuracy: rubric?.concept_accuracy ?? 0.4, ... },
\* in tenths
HandlerWeights(stored) ==
    IF stored.stored
    THEN [f \in Criteria |-> 10 * stored.weights[f]]
    ELSE [concept_accuracy |-> 4, clarity |-> 3, example_usage |-> 2, edge_cases |-> 1]

\* Number(parsed.x) || 0, in units of 1/Scale
HandlerCriterion(data, f) ==
    IF ToNumber(Field(data, f)).nan THEN 0 ELSE ToNumber(Field(data, f)).h

\* rawScore * 10, in units of 1/Scale
HandlerRawScore(data, weights) ==
    HandlerCriterion(data, "concept_accuracy") * weights.concept_accuracy
        + HandlerCriterion(data, "clarity") * weights.clarity
        + HandlerCriterion(data, "example_usage") * weights.example_usage
        + HandlerCriterion(data, "edge_cases") * weights.edge_cases

\* Math.round(Math.min(rawScore, 1) * 10)
HandlerFinalScore(data, weights) ==
    MathRound(IF HandlerRawScore(data, weights) < 10 * Scale
              THEN HandlerRawScore(data, weights) ELSE 10 * Scale) \div Scale

\* what the LLM call of a request ends in: the fetch throws, the reply has
\* no choices, the content is not JSON, or the content parses to a value
HandlerObjects ==
    {Obj(Fields(c, Num(Scale), Num(0), Num(Scale), UNDEF, Str(2), Str(1))) :
        c \in {Num(Scale), Num(0 - Scale * 3), Str(3)}}
LLMOutcomes ==
    {[kind |-> k, data |-> NoValue] : k \in {"throws", "no_choices", "invalid_json"}}
        \cup {[kind |-> "parsed", data |-> v] : v \in HandlerObjects \cup {Lit("null", 0)}}

\* what a request can have wrong with it: no Authorization header, a token
\* getUser rejects, a body without session_id or question_id, a session_id
\* with no row, a session of another user, a question_id with no row
Faults ==
    {"none", "no_header", "unauthorized", "missing_fields", "no_session",
     "foreign_session", "no_question"}

\* locals of one request: question_id, sessionData.total_score, finalScore,
\* how the LLM call ended ("none" before it), and the response once it is sent (status, the
\* error of its body, and whether the body carries raw: rawOutput)
NewRequest(q, fault) ==
    [pc |-> "session", question |-> q, fault |-> fault, snapshot |-> 0,
     finalScore |-> 0, llm |-> "none", inserted |-> FALSE, wrote |-> FALSE,
     status |-> 0, error |-> "none", raw |-> FALSE]

\* return new Response(JSON.stringify({ error }), { status })
Respond(req, status, error) ==
    [req EXCEPT !.pc = "responded", !.status = status, !.error = error]

\* a row of mock_answers; id is generated per insert
Row(i, q, score) == [id |-> i, question_id |-> q, final_score |-> score]

\* the sum of final_score over a set of rows
RECURSIVE SumFinalScores(_)
SumFinalScores(rows) ==
    IF rows = {} THEN 0
    ELSE LET a == CHOOSE x \in rows : TRUE
         IN a.final_score + SumFinalScores(rows \ {a})

\* variant: the table has no unique constraint
UniqueViolation_absent(rows, q) == FALSE

\* CONSTRAINT unique_mock_session_question UNIQUE(session_id, question_id)
UniqueViolation(rows, q) == \E a \in rows : a.question_id = q

\* final_score INTEGER NOT NULL CHECK (final_score >= 0 AND final_score <= 10)
CheckViolation(score) == score < 0 \/ score > 10

\* insertError of an insert into rows: "none" when the row is acceptable
InsertErrors == {"duplicate key", "check violation", "insert rejected"}
InsertError(rows, q, score) ==
    IF UniqueViolation(rows, q) THEN "duplicate key"
    ELSE IF CheckViolation(score) THEN "check violation"
    ELSE "none"

InitHandler ==
    /\ pc = "serving"
    /\ raw = NoRaw
    /\ validation = NoValidation
    /\ strategy = "none"
    /\ maxRetries = 0
    /\ rubric = NoRubric
    /\ retryCount = 0
    /\ lastError = "undefined"
    /\ tokenUsage = "undefined"
    /\ attempts = <<>>
    /\ response = NoResponse
    /\ parsed = ParseFailure
    /\ HandlerIdle
    /\ clients = NewClient(0)
    /\ session = NoSession

\* a request arrives: authorization header, JWT verification and request
\* body are checked
Receive ==
    /\ pc = "serving"
    /\ Len(requests) < MaxRequests
    /\ \E q \in Questions :
       \E fault \in Faults :
          requests' = Append(requests,
              CASE fault = "no_header" ->
                       Respond(NewRequest(q, fault), 401, "Missing authorization token")
                [] fault = "unauthorized" ->
                       Respond(NewRequest(q, fault), 401, "Unauthorized")
                [] fault = "missing_fields" ->
                       Respond(NewRequest(q, fault), 400, "Missing required fields")
                [] OTHER -> NewRequest(q, fault))
    /\ UNCHANGED <<clients, session, pc, pipelineVars, parsed, totalScore, answers>>

\* variant: sessionData.user_id is not compared with the caller's id
ReadSession_noOwnerCheck ==
    \E i \in 1..Len(requests) :
        /\ requests[i].pc = "session"
        /\ \E outcome \in {"ok", "not_found"} :
              /\ outcome = "ok" => requests[i].fault # "no_session"
              /\ requests' = [requests EXCEPT ![i] =
                  CASE outcome = "not_found" -> Respond(@, 404, "Session not found")
                    [] OTHER -> [@ EXCEPT !.pc = "question", !.snapshot = totalScore]]
        /\ UNCHANGED <<clients, session, pc, pipelineVars, parsed, totalScore, answers>>

\* the session row is selected: user_id and total_score; the select may
\* also fail for a session that exists (sessionError)
ReadSession ==
    \E i \in 1..Len(requests) :
        /\ requests[i].pc = "session"
        /\ \E outcome \in {"ok", "not_found", "forbidden"} :
              /\ outcome = "ok" =>
                    requests[i].fault \notin {"no_session", "foreign_session"}
              /\ outcome = "forbidden" <=> requests[i].fault = "foreign_session"
              /\ requests' = [requests EXCEPT ![i] =
                  CASE outcome = "not_found" -> Respond(@, 404, "Session not found")
                    [] outcome = "forbidden" -> Respond(@, 403, "Forbidden session access")
                    [] OTHER -> [@ EXCEPT !.pc = "question", !.snapshot = totalScore]]
        /\ UNCHANGED <<clients, session, pc, pipelineVars, parsed, totalScore, answers>>

\* the question row is selected; the select may also fail for a question
\* that exists (questionError)
FetchQuestion ==
    \E i \in 1..Len(requests) :
        /\ requests[i].pc = "question"
        /\ \E found \in BOOLEAN :
              /\ found => requests[i].fault # "no_question"
              /\ requests' = [requests EXCEPT ![i] =
                  IF found THEN [@ EXCEPT !.pc = "llm"]
                  ELSE Respond(@, 404, "Question not found")]
        /\ UNCHANGED <<clients, session, pc, pipelineVars, parsed, totalScore, answers>>

\* the LLM is called, its content parsed and the score computed
CallLLM ==
    \E i \in 1..Len(requests) :
        /\ requests[i].pc = "llm"
        /\ \E out \in LLMOutcomes :
              requests' = [requests EXCEPT ![i] =
                  CASE out.kind = "throws" ->
                           Respond([@ EXCEPT !.llm = out.kind], 500, "error.message")
                    [] out.kind = "no_choices" ->
                           Respond([@ EXCEPT !.llm = out.kind], 500, "LLM evaluation failed")
                    [] out.kind = "invalid_json" ->
                           Respond([@ EXCEPT !.llm = out.kind, !.raw = TRUE], 500,
                                   "LLM returned invalid JSON")
                    [] out.data.kind = "null" ->
                           Respond([@ EXCEPT !.llm = out.kind], 500, "error.message")
                    [] OTHER ->
                        [@ EXCEPT !.pc = "insert",
                                  !.llm = out.kind,
                                  !.finalScore = HandlerFinalScore(
                                      out.data,
                                      HandlerWeights(QuestionRubric[requests[i].question]))]]
        /\ UNCHANGED <<clients, session, pc, pipelineVars, parsed, totalScore, answers>>

\* the answer row is inserted; the database rejects it on a constraint
\* violation, and may reject it for any other reason (the row carries no
\* user_id); if (insertError) throw insertError
InsertAnswer ==
    \E i \in 1..Len(requests) :
        /\ requests[i].pc = "insert"
        /\ \E accepted \in BOOLEAN :
              IF /\ accepted
                 /\ InsertError(answers, requests[i].question,
                                requests[i].finalScore) = "none"
              THEN /\ answers' = answers \cup
                          {Row(i, requests[i].question, requests[i].finalScore)}
                   /\ requests' = [requests EXCEPT ![i].pc = "update",
                                                   ![i].inserted = TRUE]
              ELSE /\ answers' = answers
                   /\ requests' = [requests EXCEPT ![i] =
                          Respond(@, 500,
                              IF accepted
                              THEN InsertError(answers, requests[i].question,
                                               requests[i].finalScore)
                              ELSE "insert rejected")]
        /\ UNCHANGED <<clients, session, pc, pipelineVars, parsed, totalScore>>

\* total_score is written with (sessionData.total_score || 0) + finalScore
\* and the score returned; if (updateError) throw updateError
UpdateSession ==
    \E i \in 1..Len(requests) :
        /\ requests[i].pc = "update"
        /\ \E accepted \in BOOLEAN :
              IF accepted
              THEN /\ totalScore' = requests[i].snapshot + requests[i].finalScore
                   /\ requests' = [requests EXCEPT ![i] =
                          Respond([@ EXCEPT !.wrote = TRUE], 200, "none")]
              ELSE /\ totalScore' = totalScore
                   /\ requests' = [requests EXCEPT ![i] = Respond(@, 500, "updateError")]
        /\ UNCHANGED <<clients, session, pc, pipelineVars, parsed, answers>>

NextHandler ==
    \/ Receive
    \/ ReadSession
    \/ FetchQuestion
    \/ CallLLM
    \/ InsertAnswer
    \/ UpdateSession

SpecHandler == InitHandler /\ [][NextHandler]_vars

-----------------------------------------------------------------------------
(* The earlier evaluate-answer function, which stores into attempts: from  *)
(* the parsed LLM content to the response                                  *)

\* const safeFinalScore = Number.isFinite(finalScore) ? finalScore : 0; every
\* number of the model is finite
safeFinalScore(data, weights) == HandlerFinalScore(data, weights)

InitAttempt ==
    /\ pc = "attempt_parsed"
    /\ raw = NoRaw
    /\ validation = NoValidation
    /\ strategy = "none"
    /\ maxRetries = 0
    /\ rubric = NoRubric
    /\ retryCount = 0
    /\ lastError = "undefined"
    /\ tokenUsage = "undefined"
    /\ attempts = <<>>
    /\ response = NoResponse
    /\ \E values \in {{Num(Scale), Num(1), Num(0), Num(0 - Scale * 3),
                        Num(Scale * 2), Str(3), UNDEF}} :
       \E c \in values, cl \in values, e \in values, g \in values :
          parsed = ParseSuccess(Obj(Fields(c, e, g, cl, UNDEF, Str(2), Str(1))), 1)
    /\ totalScore = 0
    /\ answers = {}
    /\ \E q \in Questions : requests = <<[NewRequest(q, "none") EXCEPT !.pc = "llm"]>>
    /\ clients = NewClient(0)
    /\ session = NoSession

\* the scores are normalised and weighted, the attempt is inserted (the
\* result of the insert is not looked at), total_score is set to the sum over
\* the session's attempts, and the score is returned with status 200
StoreAttempt ==
    /\ pc = "attempt_parsed"
    /\ pc' = "attempt_responded"
    /\ \E score \in {safeFinalScore(parsed.data,
                        HandlerWeights(QuestionRubric[requests[1].question]))} :
       \E accepted \in BOOLEAN :
          /\ answers' = IF accepted
                        THEN answers \cup {Row(1, requests[1].question, score)}
                        ELSE answers
          /\ totalScore' = SumFinalScores(answers')
          /\ requests' = <<Respond([requests[1] EXCEPT !.llm = "parsed",
                                                       !.finalScore = score,
                                                       !.inserted = accepted,
                                                       !.wrote = TRUE],
                                   200, "none")>>
    /\ UNCHANGED <<pipelineVars, parsed, clients, session>>

SpecAttempt == InitAttempt /\ [][StoreAttempt]_vars

-----------------------------------------------------------------------------
(* The update_session_stats trigger on the answers table                   *)

\* update_session_on_answer(): the interview_sessions row after the trigger
\* has run for the row NEW
update_session_on_answer(s, new) ==
    IF new.evaluated
    THEN [s EXCEPT !.completed_questions = @ + 1,
                   !.total_score = [null |-> FALSE, v |-> @.v + new.final_score],
                   !.max_possible_score = [null |-> FALSE, v |-> @.v + 10]]
    ELSE s

\* CONSTRAINT valid_question_counts and CONSTRAINT valid_score; a CHECK
\* passes when it evaluates to NULL
ValidSession(s) ==
    /\ s.completed_questions <= s.total_questions
    /\ \/ s.total_score.null
       \/ s.max_possible_score.null
       \/ (s.total_score.v >= 0 /\ s.total_score.v <= s.max_possible_score.v)

InitTrigger ==
    /\ pc = "trigger"
    /\ raw = NoRaw
    /\ validation = NoValidation
    /\ strategy = "none"
    /\ maxRetries = 0
    /\ rubric = NoRubric
    /\ retryCount = 0
    /\ lastError = "undefined"
    /\ tokenUsage = "undefined"
    /\ attempts = <<>>
    /\ response = NoResponse
    /\ parsed = ParseFailure
    /\ HandlerIdle
    /\ clients = NewClient(0)
    /\ \E n \in 1..MaxQuestions : session = [NoSession EXCEPT !.total_questions = n]

\* INSERT INTO answers, with evaluation_result NULL or set; the trigger runs
\* in the same statement, which fails as a whole when a CHECK of the
\* session row fails
InsertAnswerRow ==
    /\ pc = "trigger"
    /\ Cardinality(answers) < MaxAnswers
    /\ \E evaluated \in BOOLEAN :
       \E score \in IF evaluated THEN {0, 7, 10} ELSE {0} :
       \E new \in {[id |-> Cardinality(answers) + 1, evaluated |-> evaluated,
                    final_score |-> score]} :
          /\ ValidSession(update_session_on_answer(session, new))
          /\ answers' = answers \cup {new}
          /\ session' = update_session_on_answer(session, new)
    /\ UNCHANGED <<pc, pipelineVars, parsed, totalScore, requests, clients>>

\* UPDATE answers SET evaluation_result = ... WHERE id = ...; the trigger
\* fires for every such statement (AFTER UPDATE OF evaluation_result)
UpdateEvaluation ==
    /\ pc = "trigger"
    /\ \E old \in answers :
       \E evaluated \in BOOLEAN :
       \E score \in IF evaluated THEN {0, 7, 10} ELSE {0} :
       \E new \in {[old EXCEPT !.evaluated = evaluated, !.final_score = score]} :
          /\ ValidSession(update_session_on_answer(session, new))
          /\ answers' = (answers \ {old}) \cup {new}
          /\ session' = update_session_on_answer(session, new)
    /\ UNCHANGED <<pc, pipelineVars, parsed, totalScore, requests, clients>>

SpecTrigger == InitTrigger /\ [][InsertAnswerRow \/ UpdateEvaluation]_vars

-----------------------------------------------------------------------------
(* All flows                                                               *)

Init ==
    \/ InitValidate
    \/ InitStrategy
    \/ InitEvaluate
    \/ InitParse
    \/ InitHandler
    \/ InitAttempt
    \/ InitClient
    \/ InitTrigger

Next ==
    \/ Validate
    \/ Determine
    \/ Evaluate
    \/ ProviderResolves
    \/ ProviderResolvesMalformed
    \/ ProviderRejects
    \/ Timeout
    \/ LateResponse
    \/ Parse
    \/ Receive
    \/ ReadSession
    \/ FetchQuestion
    \/ CallLLM
    \/ InsertAnswer
    \/ UpdateSession
    \/ StoreAttempt
    \/ SetModel
    \/ GetEvaluationClient
    \/ InsertAnswerRow
    \/ UpdateEvaluation

Spec == Init /\ [][Next]_vars

-----------------------------------------------------------------------------
(* Properties                                                              *)

Done == pc = "done" /\ response.returned
Outcomes == {attempts[i].outcome : i \in 1..Len(attempts)}
SumOfCriteria(d) == d.concept_accuracy + d.example_usage + d.edge_cases + d.clarity
InBounds(d, f) ==
    /\ IsInteger(d[f])
    /\ Scale * SCORE_BOUNDS[f].min <= d[f]
    /\ d[f] <= Scale * SCORE_BOUNDS[f].max
AllZero(d) == \A f \in Criteria \cup {"final_score"} : d[f] = 0
\* the fields the LLM output carried, as recovered by the parser
InputField(f) == Field(parseEvaluationResponse(raw).data, f)

\* C1: evaluate never rejects because of LLM-side behaviour: whatever the
\* per-attempt provider outcomes were (text, malformed content, rejection,
\* timeout), the call ends with a resolved EvaluationResponse carrying data.
C1_EvaluateResolvesWithData ==
    pc = "done" => response.returned /\ response.hasData

C1_Witness ==
    /\ Done
    /\ {"timeout", "rejected", "malformed", "parse_failure"} \subseteq Outcomes

\* C2: in every result produced by validateEvaluationResult, and in every
\* data field returned by evaluate, final_score is the sum of the four
\* criteria of that same result, whatever final_score the LLM output carried.
C2_FinalScoreIsSum ==
    /\ pc = "validated" /\ validation.hasData
         => validation.data.final_score = SumOfCriteria(validation.data)
    /\ Done /\ response.hasData
         => response.data.final_score = SumOfCriteria(response.data)

C2_Witness ==
    /\ pc = "validated"
    /\ validation.isValid
    /\ InputField("final_score").kind = "number"
    /\ InputField("final_score").n # SumOfCriteria(validation.data)
    /\ SumOfCriteria(validation.data) > 0

\* C3: for any parseable LLM output each criterion of the validated data is
\* an integer within the canonical bounds 0..4, 0..3, 0..2, 0..1 and
\* final_score is an integer in 0..10, also when a criterion was missing,
\* non-numeric, fractional, negative or above its maximum.
C3_ScoresWithinBounds ==
    pc = "validated" /\ validation.hasData
        => \A f \in Criteria \cup {"final_score"} : InBounds(validation.data, f)

C3_Witness ==
    /\ pc = "validated"
    /\ validation.hasData
    /\ InputField("concept_accuracy").kind = "number"
    /\ InputField("concept_accuracy").n > Scale * SCORE_BOUNDS["concept_accuracy"].max
    /\ ~IsInteger(InputField("concept_accuracy").n)
    /\ InputField("example_usage").kind = "number"
    /\ InputField("example_usage").n < 0 - (Scale \div 2)
    /\ InputField("edge_cases").kind = "undefined"
    /\ InputField("clarity").kind = "number"
    /\ ~IsInteger(InputField("clarity").n)

\* C5: isValid is true exactly when the response parsed and each of the four
\* criteria was present and numeric; clamping, rounding, a disagreeing
\* final_score and missing, empty or over-long text fields do not change it.
C5_IsValidIffCriteriaNumeric ==
    pc = "validated"
        => (validation.isValid <=>
              /\ parseEvaluationResponse(raw).success
              /\ \A f \in Criteria :
                    /\ InputField(f).kind \notin {"undefined", "null"}
                    /\ ~ToNumber(InputField(f)).nan)

C5_Witness ==
    /\ pc = "validated"
    /\ validation.isValid
    /\ InputField("concept_accuracy").n > Scale * SCORE_BOUNDS["concept_accuracy"].max
    /\ InputField("final_score").kind = "number"
    /\ InputField("final_score").n # validation.data.final_score
    /\ InputField("overall_feedback").kind = "undefined"
    /\ InputField("improvement_tips").n > MaxFieldLength

AttemptsWithinBudget ==
    /\ Len(attempts) <= maxRetries + 1
    /\ pc = "awaiting" => Len(attempts) = retryCount + 1 /\ retryCount <= maxRetries

\* C6: one evaluate call issues at most maxRetries + 1 provider calls and
\* then returns: while a call is awaited the number of calls issued is
\* retryCount + 1 <= maxRetries + 1, and the call eventually ends.
C6_BoundedProviderCalls ==
    []AttemptsWithinBudget /\ <>(pc = "done")

C6_Witness ==
    /\ Done
    /\ maxRetries > SelectorMaxRetries
    /\ Len(attempts) = maxRetries + 1

\* C4: for every rubric accepted by validateRubricWeights, each criterion of
\* a result accepted by evaluate lies within 0..max_score of that rubric,
\* the bound the prompt announced.
C4_ScoresWithinRubric ==
    Done /\ response.success
        => \A f \in Criteria :
              /\ 0 <= response.data[f]
              /\ response.data[f] <= Scale * rubric[f]

\* C7: when every one of the maxRetries + 1 provider calls times out,
\* evaluate returns success false, the all-zero result and a retry_count
\* equal to maxRetries.
C7_AllTimeoutsRetryCount ==
    Done /\ Len(attempts) = maxRetries + 1 /\ Outcomes = {"timeout"}
        => /\ ~response.success
           /\ AllZero(response.data)
           /\ response.metadata.retry_count = maxRetries

\* C8: after a parse failure on the first attempt the second attempt is sent
\* with the full prompt again, and an attempt uses the fallback prompt only
\* when the selector decided retry_simplified for the attempt before it.
C8_PromptFollowsStrategy ==
    /\ Len(attempts) >= 2 /\ attempts[1].outcome = "parse_failure"
         => attempts[2].prompt = "full"
    /\ \A i \in 2..Len(attempts) :
          attempts[i].prompt = "fallback"
              => attempts[i - 1].strategy = RETRY_SIMPLIFIED

\* C9 as stated: determineRecoveryStrategy returns USE_DEFAULT_SCORES for
\* every validation result once retryCount >= maxRetries (2).
C9_DefaultForEveryResult ==
    pc = "decided" /\ retryCount >= SelectorMaxRetries
        => strategy = USE_DEFAULT_SCORES

\* C9 amended: determineRecoveryStrategy returns USE_DEFAULT_SCORES for
\* every invalid validation result (parse failure or field-level errors)
\* once retryCount >= maxRetries (2).
C9_DefaultForEveryInvalidResult ==
    pc = "decided" /\ retryCount >= SelectorMaxRetries /\ ~validation.isValid
        => strategy = USE_DEFAULT_SCORES

C9_Witness ==
    /\ pc = "decided"
    /\ retryCount = SelectorMaxRetries
    /\ ~validation.isValid
    /\ validation.hasData
    /\ Len(validation.warnings) > 0
    /\ strategy = USE_DEFAULT_SCORES

\* C10: for a valid validation outcome the selector returns an accept
\* decision that differs from both retry decisions and from the default
\* decision, for every retryCount.
C10_ValidIsDistinctAccept ==
    pc = "decided" /\ validation.isValid
        => strategy \notin {RETRY_SAME_PROMPT, RETRY_SIMPLIFIED, USE_DEFAULT_SCORES}

\* the validation outcome is the early return on a failed or falsy parse
TerminalParseFailure == ~validation.isValid /\ ~validation.hasData

\* C11: for an invalid validation outcome and retryCount < maxRetries (2),
\* determineRecoveryStrategy returns RETRY_SAME_PROMPT exactly when the
\* outcome is a terminal parse failure and retryCount is 0, and
\* RETRY_SIMPLIFIED in every other case; it never returns FAIL.
C11_RetryDecisionBelowBudget ==
    pc = "decided"
        => /\ strategy # FAIL
           /\ ~validation.isValid /\ retryCount < SelectorMaxRetries
                => IF TerminalParseFailure /\ retryCount = 0
                   THEN strategy = RETRY_SAME_PROMPT
                   ELSE strategy = RETRY_SIMPLIFIED

C11_Witness ==
    /\ pc = "decided"
    /\ TerminalParseFailure
    /\ ~parseEvaluationResponse(raw).success
    /\ retryCount = 0
    /\ strategy = RETRY_SAME_PROMPT

\* C12: evaluate accepts the first attempt whose validation outcome is
\* valid: a valid attempt k (0-based) is the last provider call issued, and
\* the call returns success true with data equal to that attempt's validated
\* result and metadata.retry_count = k (0 for a valid first response).
C12_FirstValidAttemptAccepted ==
    \A i \in 1..Len(attempts) :
        attempts[i].outcome = "valid"
            => /\ i = Len(attempts)
               /\ Done
               /\ response.success
               /\ validation.isValid
               /\ response.data = validation.data
               /\ response.metadata.retry_count = i - 1

C12_Witness ==
    /\ Done
    /\ Len(attempts) = SelectorMaxRetries + 1
    /\ attempts[1].outcome = "parse_failure"
    /\ attempts[2].outcome = "field_errors"
    /\ attempts[3].outcome = "valid"
    /\ validation.wasRepaired
    /\ response.metadata.retry_count = SelectorMaxRetries

\* C13: every EvaluationResponse returned by evaluate carries metadata;
\* success is false exactly when the error field is set, and then data is
\* the default result with the four criteria and final_score 0; a response
\* with success true carries no error field.
C13_ErrorIffFailure ==
    Done
        => /\ "metadata" \in DOMAIN response
           /\ response.metadata.retry_count \in Nat
           /\ ~response.success <=> response.hasError
           /\ response.hasError
                => /\ response.error # "undefined"
                   /\ response.hasData
                   /\ AllZero(response.data)
                   /\ response.data.overall_feedback.content = "could_not_be_completed"
           /\ response.success => response.error = "undefined"

C13_Witness ==
    /\ Done
    /\ ~response.success
    /\ response.hasError
    /\ validation.hasData
    /\ ~AllZero(validation.data)
    /\ "timeout" \in Outcomes

WarningsOf(f) == SelectSeq(validation.warnings, LAMBDA w : w.field = f)
ErrorsOf(f) == SelectSeq(validation.errors, LAMBDA e : e.field = f)
NumericInput(f) == InputField(f).kind \in {"number", "numstring"}
\* r is an integer at distance at most 1/2 from h
Nearest(h, r) == IsInteger(r) /\ 2 * (IF r > h THEN r - h ELSE h - r) <= Scale
Clamped(r, f) ==
    IF r < 0 THEN 0
    ELSE IF r > Scale * SCORE_BOUNDS[f].max THEN Scale * SCORE_BOUNDS[f].max
    ELSE r

\* C14: for a present, numeric criterion value the validated score is the
\* value rounded to the nearest integer and then clamped into [0, max]; the
\* warnings of that field are one for the rounding, if the value was not an
\* integer, followed by one for the clamp, if the rounded value was out of
\* range; no error is recorded for the field, wasRepaired is true when a
\* correction was made, and an in-range integer leaves no warning.
C14_RoundThenClamp ==
    pc = "validated" /\ validation.hasData
        => \A f \in Criteria :
              NumericInput(f)
                  => \E r \in (InputField(f).n - Scale)..(InputField(f).n + Scale) :
                        /\ Nearest(InputField(f).n, r)
                        /\ IsInteger(InputField(f).n) => r = InputField(f).n
                        /\ validation.data[f] = Clamped(r, f)
                        /\ WarningsOf(f) =
                              (IF r # InputField(f).n
                               THEN <<Warn(f, "Score was not an integer")>> ELSE <<>>)
                              \o (IF r < 0 THEN <<Warn(f, "Score below minimum")>>
                                  ELSE IF Clamped(r, f) # r
                                  THEN <<Warn(f, "Score above maximum")>> ELSE <<>>)
                        /\ ErrorsOf(f) = <<>>
                        /\ validation.data[f] # InputField(f).n => validation.wasRepaired

C14_Witness ==
    /\ pc = "validated"
    /\ validation.isValid
    /\ validation.wasRepaired
    /\ InputField("concept_accuracy")
          = Num(Scale * (SCORE_BOUNDS["concept_accuracy"].max + MaxExcess))
    /\ validation.data.concept_accuracy = Scale * SCORE_BOUNDS["concept_accuracy"].max
    /\ Len(WarningsOf("concept_accuracy")) = 1
    /\ InputField("example_usage").kind = "number"
    /\ Len(WarningsOf("example_usage")) = 2
    /\ InputField("edge_cases") = Num(Scale)
    /\ WarningsOf("edge_cases") = <<>>
    /\ InputField("clarity").kind = "number"
    /\ ~IsInteger(InputField("clarity").n)
    /\ InputField("clarity").n < 0

MissingOrEmpty(v) ==
    v.kind \in {"undefined", "null"} \/ (v.kind = "string" /\ v.n = 0)

\* C15: when overall_feedback or improvement_tips is missing (undefined or
\* null) or empty in a parseable response, the validated result carries the
\* fixed default string, the repair is recorded as a warning for that field
\* and nothing is added to errors.
C15_TextDefaultIsWarning ==
    pc = "validated" /\ validation.hasData
        => \A f \in StringFields :
              MissingOrEmpty(InputField(f))
                  => /\ validation.data[f] = DefaultText
                     /\ WarningsOf(f) # <<>>
                     /\ ErrorsOf(f) = <<>>

\* C16: overall_feedback and improvement_tips of every result returned by
\* validateEvaluationResult have length at most the configured maximum of
\* 1000 characters, also after truncation with an ellipsis.
C16_TextWithinMaxLength ==
    pc = "validated" /\ validation.hasData
        => \A f \in StringFields : validation.data[f].len <= MaxFieldLength

\* the three forms of the claim: bare JSON, a json fenced block inside
\* prose, and JSON with a trailing comma and single-quoted strings
ThreeForms == {BareText, FencedText, SloppyText}

\* C17: parseEvaluationResponse succeeds on the same evaluation object given
\* as bare JSON, as a json fenced block inside surrounding prose and as JSON
\* with trailing commas and single-quoted strings, and the parsed objects
\* are equal field by field (each equals the object that was written).
C17_SameObjectThreeForms ==
    pc = "parsed" /\ raw.value.kind = "object" /\ raw.text \in ThreeForms
        => /\ parsed.success
           /\ \A f \in FieldNames : Field(parsed.data, f) = Field(raw.value, f)

\* C18: parseEvaluationResponse tries direct parse, first fenced code
\* block, brace span and sanitized brace span in this order and returns the
\* result of the earliest stage that succeeds; text that is directly valid
\* JSON is returned as written, and failure is reported exactly when all
\* four stages fail.
C18_EarliestStageWins ==
    pc = "parsed"
        => /\ parsed.success
                <=> \/ DirectParse(raw).ok \/ FencedParse(raw).ok
                    \/ BraceParse(raw).ok \/ SanitizedParse(raw).ok
           /\ ~parsed.success => parsed = ParseFailure
           /\ DirectParse(raw).ok
                => parsed = ParseSuccess(raw.value, 1)
                      \/ (raw.text = EmptyObjectText /\ parsed = ParseSuccess(Obj(NoFields), 1))
           /\ ~DirectParse(raw).ok /\ FencedParse(raw).ok
                => parsed = ParseSuccess(FencedParse(raw).data, 2)
           /\ ~DirectParse(raw).ok /\ ~FencedParse(raw).ok /\ BraceParse(raw).ok
                => parsed = ParseSuccess(BraceParse(raw).data, 3)
           /\ (~DirectParse(raw).ok /\ ~FencedParse(raw).ok
                    /\ ~BraceParse(raw).ok /\ SanitizedParse(raw).ok)
                => parsed = ParseSuccess(SanitizedParse(raw).data, 4)

C18_Witness ==
    /\ pc = "parsed"
    /\ parsed.stage = 2
    /\ BraceParse(raw).ok
    /\ BraceParse(raw).data # parsed.data

AllResponded ==
    /\ Len(requests) = MaxRequests
    /\ \A i \in 1..Len(requests) : requests[i].pc = "responded"
DifferentQuestions ==
    \A i, j \in 1..Len(requests) :
        requests[i].question = requests[j].question => i = j

NoFailedWrite ==
    \A i \in 1..Len(requests) : requests[i].inserted => requests[i].wrote

\* C19: for any interleaving of concurrent evaluate-answer requests for
\* different questions of the same session, once all requests have completed
\* (none of them with a failed total_score write) the session's total_score
\* equals the sum of final_score over the stored answers of the session.
C19_TotalIsSumOfAnswers ==
    pc = "serving" /\ AllResponded /\ DifferentQuestions /\ NoFailedWrite
        => totalScore = SumFinalScores(answers)

\* the total_score write of a request follows its successful insert, a
\* request whose insert failed has written nothing, and a (session_id,
\* question_id) pair has at most one row
WriteFollowsInsert ==
    /\ \A i \in 1..Len(requests) :
          /\ requests[i].wrote => requests[i].inserted
          /\ requests[i].error \in InsertErrors
                => ~requests[i].inserted /\ ~requests[i].wrote
    /\ \A a, b \in answers : a.question_id = b.question_id => a = b

\* a step in which an insert fails changes neither total_score nor the
\* rows, and total_score is only changed by a request whose insert succeeded
FailedInsertWritesNothing ==
    /\ \A i \in 1..Len(requests) :
          requests[i].pc = "insert" /\ requests'[i].error \in InsertErrors
              => totalScore' = totalScore /\ answers' = answers
    /\ totalScore' # totalScore
          => \E i \in 1..Len(requests) :
                requests[i].inserted /\ ~requests[i].wrote /\ requests'[i].wrote

\* C20: the handler writes total_score only after the answer insert of that
\* request has succeeded; when the insert fails, also for a second submission
\* of an already answered (session_id, question_id) pair, total_score is left
\* unchanged, and at most one answer row exists per pair.
C20_WriteOnlyAfterInsert ==
    []WriteFollowsInsert /\ [][FailedInsertWritesNothing]_vars

C20_Witness ==
    \E i, j \in 1..Len(requests) :
        /\ i # j
        /\ requests[i].question = requests[j].question
        /\ requests[i].wrote
        /\ requests[j].error = "duplicate key"
        /\ totalScore = requests[i].finalScore
        /\ totalScore > 0

-----------------------------------------------------------------------------
(* The handler's answers to requests that fail a precondition              *)

PreconditionFaults == {"missing_fields", "no_session", "foreign_session", "no_question"}
ClientError == 400..499

\* a request that fails a precondition never reaches the LLM call, the
\* insert or the total_score write, and is answered with a 4xx status
RejectedBeforeLLM ==
    \A i \in 1..Len(requests) :
        requests[i].fault \in PreconditionFaults =>
            /\ requests[i].llm = "none"
            /\ ~requests[i].inserted
            /\ ~requests[i].wrote
            /\ requests[i].pc = "responded" => requests[i].status \in ClientError

\* a step of such a request changes neither the answers nor the total
RejectionWritesNothing ==
    \A i \in 1..Len(requests') :
        (/\ requests'[i].fault \in PreconditionFaults
         /\ (i > Len(requests) \/ requests'[i] # requests[i]))
            => answers' = answers /\ totalScore' = totalScore

-----------------------------------------------------------------------------
(* The handler's answer when the LLM call fails                            *)

LLMFailures == {"throws", "no_choices", "invalid_json"}

\* C23: when the LLM call fails or its content is not valid JSON, the
\* handler answers with status 200 and a zero score, with no error and
\* without the raw LLM output in the body
C23_LLMFailureGivesZeroResult ==
    \A i \in 1..Len(requests) :
        (requests[i].pc = "responded" /\ requests[i].llm \in LLMFailures) =>
            /\ requests[i].status = 200
            /\ requests[i].finalScore = 0
            /\ requests[i].error = "none"
            /\ ~requests[i].raw

-----------------------------------------------------------------------------
(* The score of a success response                                         *)

\* C22: every response with status 200 carries a score that is an integer
\* in 0..10, whatever criterion values the LLM returned and whatever rubric
\* is stored with the question
C22_SuccessScoreInRange ==
    \A i \in 1..Len(requests) :
        (requests[i].pc = "responded" /\ requests[i].status = 200) =>
            requests[i].finalScore \in 0..10

-----------------------------------------------------------------------------
(* retry_count, provider calls and the reported error of evaluate          *)

\* C25: in every response returned by evaluate, metadata.retry_count is the
\* number of provider calls issued by that call minus one, whether it ended
\* by acceptance, by a use_default_scores decision or by provider errors or
\* timeouts on every attempt
C25_RetryCountIsCallsMinusOne ==
    Done => response.metadata.retry_count = Len(attempts) - 1

ValidationFailures == {"parse_failure", "field_errors"}
ThrownFailures == {"rejected", "timeout", "malformed"}

\* C26: with maxRetries = N, when every attempt yields unparseable or
\* field-invalid output evaluate issues exactly N + 1 provider calls, as it
\* does when every attempt throws or times out
C26_SharedRetryBudget ==
    (Done /\ (Outcomes \subseteq ValidationFailures \/ Outcomes \subseteq ThrownFailures))
        => Len(attempts) = maxRetries + 1

\* the messages a failed attempt of each kind can carry
MessagesOf(outcome) ==
    CASE outcome = "timeout" -> {"Request timeout"}
      [] outcome = "rejected" -> ProviderErrors
      [] outcome = "malformed" -> {"TypeError"}
      [] outcome = "parse_failure" -> {"Invalid JSON", "Failed to parse response as JSON"}
      [] outcome = "field_errors" -> {"Missing required field", "Invalid number"}
      [] OTHER -> {}

\* C27: when evaluate returns success false, error.message and the reason
\* inside data.overall_feedback are a message of the last attempt that was
\* made, for every mix of failure kinds across the attempts
C27_ErrorOfLastAttempt ==
    (Done /\ ~response.success) =>
        /\ response.error \in MessagesOf(attempts[Len(attempts)].outcome)
        /\ response.data.overall_feedback.reason
              \in MessagesOf(attempts[Len(attempts)].outcome)

-----------------------------------------------------------------------------
(* Parsed values that are not objects                                      *)

\* the raw text is valid JSON for a value that is not an object
NonObjectJSON == DirectParse(raw).ok /\ DirectParse(raw).data.kind # "object"

\* C29: parseEvaluationResponse reports success only for a JSON object;
\* valid JSON that is not an object is a parse failure, which
\* validateEvaluationResult reports under field 'response' and for which
\* quickValidate returns false without throwing
C29_OnlyObjectsParse ==
    pc = "parsed" =>
        /\ parsed.success => parsed.data.kind = "object"
        /\ NonObjectJSON =>
              /\ ~parsed.success
              /\ validateEvaluationResult(raw).errors[1].field = "response"
              /\ quickValidate(raw) = "false"

-----------------------------------------------------------------------------
(* Provider responses that arrive after the deadline                       *)

\* the step is the arrival of a response whose attempt has timed out
LateArrival ==
    \E i \in 1..Len(attempts) :
        attempts[i].call = "pending" /\ attempts'[i].call = "late"

\* an attempt whose deadline fired is recorded once, as a timeout, and the
\* attempts before an awaited call are exactly retryCount failed ones
TimeoutCountedOnce ==
    /\ \A i \in 1..Len(attempts) :
          attempts[i].call = "late" => attempts[i].outcome = "timeout"
    /\ pc = "awaiting" => Len(attempts) = retryCount + 1

\* C28: a provider response that arrives after the deadline of its attempt
\* is discarded: it does not become the returned data, it changes neither
\* retry_count nor token_usage nor the course of the call, and the attempt
\* stays counted once as a failed attempt, however the arrival interleaves
\* with later attempts
C28_LateResponseDiscarded ==
    /\ []TimeoutCountedOnce
    /\ [][LateArrival =>
            /\ UNCHANGED <<pc, validation, retryCount, lastError, tokenUsage, response>>
            /\ Len(attempts') = Len(attempts)
            /\ \A i \in 1..Len(attempts) :
                  attempts'[i].outcome = attempts[i].outcome]_vars

\* the first attempt timed out, its response has arrived late, and the
\* second attempt was accepted with its own usage and retry_count 1
C28_Witness ==
    /\ Done
    /\ response.success
    /\ Len(attempts) = 2
    /\ attempts[1].outcome = "timeout"
    /\ attempts[1].call = "late"
    /\ response.metadata.retry_count = 1
    /\ response.metadata.token_usage = UsageOf(2)

-----------------------------------------------------------------------------
(* Isolation of an evaluate call from other users of the client            *)

\* C24: the provider and model an evaluate call uses for its attempts and
\* reports in metadata.model_used / model_version are those in effect when
\* the call started, whatever setModel and getEvaluationClient(options)
\* calls other flows make while it is suspended
C24_FlowKeepsItsModel ==
    Done =>
        /\ \A i \in 1..Len(attempts) :
              /\ attempts[i].provider = attempts[1].provider
              /\ attempts[i].model = attempts[1].model
        /\ response.metadata.model_used = attempts[1].provider
        /\ response.metadata.model_version = attempts[1].model

-----------------------------------------------------------------------------
(* The session statistics kept by the trigger                              *)

Evaluated == {a \in answers : a.evaluated}

\* C30: after any sequence of answer inserts and evaluation_result updates,
\* total_score is the sum of final_score over the session's answers with a
\* non-null evaluation_result and completed_questions is the number of such
\* answers, each counted once however often its evaluation_result is written
C30_SessionStatsMatchAnswers ==
    pc = "trigger" =>
        /\ session.total_score.v = SumFinalScores(Evaluated)
        /\ session.completed_questions = Cardinality(Evaluated)
====
